---- MODULE Spec2Model ----
(***************************************************************************)
(* Model of app.py, the Streamlit front end of the bank marketing          *)
(* predictor.  One server process, one browser session at a time.  Every   *)
(* user interaction makes Streamlit execute the script (main) again from   *)
(* the top; what is on screen after a run is what that run emitted.  The   *)
(* run is modelled statement group by statement group (pc), so that the    *)
(* order of the model calls and of the rendering is visible.               *)
(***************************************************************************)
EXTENDS Integers, Sequences, FiniteSets, TLC

VARIABLES
    file,         \* the artifact at MODEL_PATH: "missing", "corrupt" or "good"
    cache,        \* st.cache_resource entry of load_model
    loads,        \* number of joblib.load calls made by the process
    form,         \* widget state of the session (the raw form fields)
    trigger,      \* what started the current/last run
    pc,           \* position of the script run ("idle": no run executing)
    model,        \* main's local `model`
    input_df,     \* main's local `input_df`
    prediction,   \* main's local `prediction`  (<<>> until assigned)
    probability,  \* main's local `probability` (<<>> until assigned)
    raised,       \* exception in flight inside the try block ("none" if none)
    calls,        \* model operations invoked by the current/last run
    emitted,      \* elements emitted so far by the current/last run
    display       \* the screen: elements of the last completed run

vars == <<file, cache, loads, form, trigger, pc, model, input_df, prediction,
          probability, raised, calls, emitted, display>>

----------------------------------------------------------------------------
(* Bounds of the model *)

\* probabilities are k/Scale, k in 0..Scale
Scale == 1000

\* cap on the joblib.load counter
MaxLoads == 3

----------------------------------------------------------------------------
(* Program constants *)

AgeDefault == 35
CampaignMin == 1
CampaignMax == 50
CampaignDefault == 2
PdaysMin == 0
PdaysMax == 999
PdaysDefault == 999
PreviousDefault == 0
\* float defaults, in units of the widget's step
EmpVarRateDefault == 11
ConsPriceIdxDefault == 93994
ConsConfIdxDefault == -364
Euribor3mDefault == 4857
NrEmployedDefault == 51910

\* sentinel of "never contacted" and the contact-count limit
NeverContacted == 999
CampaignLimit == 5

\* tier cutoffs, in tenths
HighCut == 7
MediumCut == 4

PoutcomeOptions == {"nonexistent", "failure", "success"}

----------------------------------------------------------------------------
(* Python values *)

None == [kind |-> "None"]
Model(n) == [kind |-> "Model", id |-> n]
NoFrame == <<>>
Unassigned == <<>>

\* the exception classes that occur (all derive from Exception)
ExceptionClasses == {"FileNotFoundError", "UnpicklingError", "ValueError",
                     "AttributeError"}
IsException(e) == e \in ExceptionClasses

----------------------------------------------------------------------------
(* load_model *)

Empty == [kind |-> "Empty"]

\* variant: no caching, the body runs on every call
CacheNever(c) == FALSE

\* @st.cache_resource: a stored entry is returned instead of running the body
CacheHit(c) == c # Empty

\* os.path.exists(MODEL_PATH)
PathExists(f) == f # "missing"

\* joblib.load(MODEL_PATH): what it returns or raises, n being the instance made
JoblibLoad(f, n) ==
    CASE f = "good"    -> [exc |-> "none", value |-> Model(n)]
      [] f = "corrupt" -> [exc |-> "UnpicklingError", value |-> None]
      [] f = "missing" -> [exc |-> "FileNotFoundError", value |-> None]

\* variant: the handler names FileNotFoundError only
LoadCatchesNarrow(e) == e = "FileNotFoundError"

\* `except Exception as e` around joblib.load
LoadCatches(e) == IsException(e)

\* the entry stored for a call of the body: its return value and the elements
\* it emitted (replayed on every cache hit)
Entry(value, signal, cause) ==
    [kind |-> "Entry", value |-> value, signal |-> signal, cause |-> cause]

----------------------------------------------------------------------------
(* get_user_input *)

FormDefaults ==
    [age |-> AgeDefault, job |-> "admin.", marital |-> "married",
     education |-> "basic.4y", default |-> "no", housing |-> "no",
     loan |-> "no", contact |-> "cellular", month |-> "jan",
     day_of_week |-> "mon", campaign |-> CampaignDefault,
     pdays |-> PdaysDefault, previous |-> PreviousDefault,
     poutcome |-> "nonexistent", emp_var_rate |-> EmpVarRateDefault,
     cons_price_idx |-> ConsPriceIdxDefault,
     cons_conf_idx |-> ConsConfIdxDefault, euribor3m |-> Euribor3mDefault,
     nr_employed |-> NrEmployedDefault]

\* variant: the pdays column is filled with the widget default, not its value
RawDataStalePdays(w) ==
    ("age" :> w.age) @@ ("job" :> w.job) @@ ("marital" :> w.marital) @@
    ("education" :> w.education) @@ ("default" :> w.default) @@
    ("housing" :> w.housing) @@ ("loan" :> w.loan) @@
    ("contact" :> w.contact) @@ ("month" :> w.month) @@
    ("day_of_week" :> w.day_of_week) @@ ("campaign" :> w.campaign) @@
    ("pdays" :> PdaysDefault) @@ ("previous" :> w.previous) @@
    ("poutcome" :> w.poutcome) @@ ("emp.var.rate" :> w.emp_var_rate) @@
    ("cons.price.idx" :> w.cons_price_idx) @@
    ("cons.conf.idx" :> w.cons_conf_idx) @@ ("euribor3m" :> w.euribor3m) @@
    ("nr.employed" :> w.nr_employed)

\* the feature dictionary `data`: column name -> widget value
RawData(w) ==
    ("age" :> w.age) @@ ("job" :> w.job) @@ ("marital" :> w.marital) @@
    ("education" :> w.education) @@ ("default" :> w.default) @@
    ("housing" :> w.housing) @@ ("loan" :> w.loan) @@
    ("contact" :> w.contact) @@ ("month" :> w.month) @@
    ("day_of_week" :> w.day_of_week) @@ ("campaign" :> w.campaign) @@
    ("pdays" :> w.pdays) @@ ("previous" :> w.previous) @@
    ("poutcome" :> w.poutcome) @@ ("emp.var.rate" :> w.emp_var_rate) @@
    ("cons.price.idx" :> w.cons_price_idx) @@
    ("cons.conf.idx" :> w.cons_conf_idx) @@ ("euribor3m" :> w.euribor3m) @@
    ("nr.employed" :> w.nr_employed)

\* variant: the contact-count comparison is <= instead of <
EngineerInclusive(data) ==
    data @@
    ("was_previously_contacted" :>
        (IF data["pdays"] # NeverContacted THEN 1 ELSE 0)) @@
    ("campaign_successful" :>
        (IF data["campaign"] <= CampaignLimit THEN 1 ELSE 0)) @@
    ("poutcome_success" :>
        (IF data["poutcome"] = "success" THEN 1 ELSE 0))

\* the three engineered columns added to the one-row frame
Engineer(data) ==
    data @@
    ("was_previously_contacted" :>
        (IF data["pdays"] # NeverContacted THEN 1 ELSE 0)) @@
    ("campaign_successful" :>
        (IF data["campaign"] < CampaignLimit THEN 1 ELSE 0)) @@
    ("poutcome_success" :>
        (IF data["poutcome"] = "success" THEN 1 ELSE 0))

get_user_input(w) == Engineer(RawData(w))

----------------------------------------------------------------------------
(* main: what the run puts on screen *)

\* nothing on screen
Blank ==
    [title |-> FALSE, loadSignal |-> "none", loadCause |-> "none",
     formShown |-> FALSE, profile |-> <<>>, buttonShown |-> FALSE,
     label |-> "none", balloons |-> FALSE, metric |-> <<>>,
     progress |-> <<>>, tiers |-> {}, predError |-> "none",
     uncaught |-> "none", footer |-> FALSE]

\* st.title, st.markdown("---")
StartScreen == [Blank EXCEPT !.title = TRUE]

\* the st.error/st.info of load_model (emitted by the body, replayed on a hit)
WithLoadMessages(e, signal, cause) ==
    [e EXCEPT !.loadSignal = signal, !.loadCause = cause]

\* variant: the run goes on without a model
StopsNever(m) == FALSE

\* `if model is None: st.stop()`
StopsRun(m) == m = None

\* the sidebar widgets of get_user_input, then the profile summary of col1
WithSidebar(e) == [e EXCEPT !.formShown = TRUE]

WithProfile(e, df) ==
    [e EXCEPT !.profile =
        <<df["age"], df["job"], df["education"], df["marital"], df["housing"],
          df["loan"], df["default"], df["campaign"], df["previous"],
          df["poutcome"]>>]

\* st.button: rendered on every run that gets there; TRUE only in the run
\* its click started
WithButton(e) == [e EXCEPT !.buttonShown = TRUE]

\* variant: the prediction block is not guarded by the click
ButtonAlways(t) == TRUE

ButtonValue(t) == t = "press"

\* success/error headline for the predicted class
Label(y) == IF y = 1 THEN "LIKELY TO SUBSCRIBE" ELSE "UNLIKELY TO SUBSCRIBE"

\* f"{probability:.1%}": tenths of a percent, rounded to nearest
Metric(p) == (2000 * p + Scale) \div (2 * Scale)

\* st.progress(probability): whole percent
Progress(p) == (100 * p) \div Scale

\* variant: the cutoffs are compared with >= instead of >
TierInclusive(p) ==
    IF 10 * p >= HighCut * Scale THEN "HIGH"
    ELSE IF 10 * p >= MediumCut * Scale THEN "MEDIUM"
    ELSE "LOW"

\* the recommendation branch taken for probability p/Scale
Tier(p) ==
    IF 10 * p > HighCut * Scale THEN "HIGH"
    ELSE IF 10 * p > MediumCut * Scale THEN "MEDIUM"
    ELSE "LOW"

\* the "Display results" part of the try block
WithResults(e, y, p) ==
    [e EXCEPT !.label = Label(y), !.balloons = (y = 1),
              !.metric = <<Metric(p)>>, !.progress = <<Progress(p)>>,
              !.tiers = {Tier(p)}]

\* variant: the handler names KeyError only
PredictCatchesNarrow(exc) == exc = "KeyError"

\* `except Exception as e` around the prediction
PredictCatches(exc) == IsException(exc)

\* variant: the handler also shows a fallback headline
WithErrorAndFallback(e, exc) ==
    [e EXCEPT !.predError = exc, !.label = "UNLIKELY TO SUBSCRIBE"]

\* the handler: st.error(f"Prediction error: {e}"), st.info(...)
WithPredictionError(e, exc) == [e EXCEPT !.predError = exc]

\* an exception that leaves the script is shown by Streamlit
WithUncaught(e, exc) == [e EXCEPT !.uncaught = exc]

\* footer markdown
WithFooter(e) == [e EXCEPT !.footer = TRUE]

\* variant: result elements of the run before stay when the run emitted none
ScreenKeepingResults(old, em) ==
    IF em.label = "none"
    THEN [em EXCEPT !.label = old.label, !.balloons = old.balloons,
                    !.metric = old.metric, !.progress = old.progress,
                    !.tiers = old.tiers]
    ELSE em

\* the screen once a run has ended: the elements of that run, the elements
\* of the run before it are discarded
ScreenAfterRun(old, em) == em

\* the screen left by a run over widget state w in which the button was not
\* pressed
IdleScreen(w) ==
    WithFooter(WithButton(WithProfile(WithSidebar(StartScreen),
                                      get_user_input(w))))

----------------------------------------------------------------------------
(* Inputs *)

\* widget values the user changes a field to
EditValues ==
    [pdays |-> {5, PdaysDefault}, campaign |-> {CampaignDefault, 4, 5, 7},
     poutcome |-> PoutcomeOptions, job |-> {"admin.", "student"},
     age |-> {AgeDefault, 95}]

\* probabilities the model returns: the ends and both sides of each cutoff
ProbSamples ==
    {0, (MediumCut * Scale) \div 10, (MediumCut * Scale) \div 10 + 1,
     (HighCut * Scale) \div 10, (HighCut * Scale) \div 10 + 1, Scale}

\* what the pipeline raises when it rejects the frame
ModelRaises == {"ValueError"}

Unbound == [kind |-> "Unbound"]

----------------------------------------------------------------------------
(* Initial state: the server process is up, no script run yet *)

Init ==
    /\ file \in {"missing", "corrupt", "good"}
    /\ cache = Empty
    /\ loads = 0
    /\ form = FormDefaults
    /\ trigger = "none"
    /\ pc = "idle"
    /\ model = Unbound
    /\ input_df = NoFrame
    /\ prediction = Unassigned
    /\ probability = Unassigned
    /\ raised = "none"
    /\ calls = <<>>
    /\ emitted = Blank
    /\ display = Blank

----------------------------------------------------------------------------
(* What starts a script run *)

\* a run of main begins: fresh locals, nothing emitted yet but the header
RunStart(t) ==
    /\ trigger' = t
    /\ pc' = "load_model"
    /\ model' = Unbound
    /\ input_df' = NoFrame
    /\ prediction' = Unassigned
    /\ probability' = Unassigned
    /\ raised' = "none"
    /\ calls' = <<>>
    /\ emitted' = StartScreen

\* a browser opens the page: new session, widgets at their defaults
Connect ==
    /\ pc = "idle"
    /\ form' = FormDefaults
    /\ display' = Blank
    /\ RunStart("connect")
    /\ UNCHANGED <<file, cache, loads>>

\* the user asks for a rerun without touching a widget
Rerun ==
    /\ pc = "idle"
    /\ display.title
    /\ RunStart("rerun")
    /\ UNCHANGED <<file, cache, loads, form, display>>

\* the user changes a sidebar widget
Edit ==
    /\ pc = "idle"
    /\ display.formShown
    /\ \E f \in DOMAIN EditValues : \E v \in EditValues[f] :
          /\ v # form[f]
          /\ form' = [form EXCEPT ![f] = v]
    /\ RunStart("edit")
    /\ UNCHANGED <<file, cache, loads, display>>

\* the user presses "Predict Subscription"
Press ==
    /\ pc = "idle"
    /\ display.buttonShown
    /\ RunStart("press")
    /\ UNCHANGED <<file, cache, loads, form, display>>

\* the artifact is written, damaged or removed outside the app
FileChange ==
    /\ \E f \in {"missing", "corrupt", "good"} \ {file} : file' = f
    /\ UNCHANGED <<cache, loads, form, trigger, pc, model, input_df,
                   prediction, probability, raised, calls, emitted, display>>

----------------------------------------------------------------------------
(* model = load_model() *)

\* cache hit: the stored value, and the stored messages replayed
LoadModelCached ==
    /\ pc = "load_model"
    /\ CacheHit(cache)
    /\ model' = cache.value
    /\ emitted' = WithLoadMessages(emitted, cache.signal, cache.cause)
    /\ pc' = "check_model"
    /\ UNCHANGED <<file, cache, loads, form, trigger, input_df, prediction,
                   probability, raised, calls, display>>

\* cache miss, the body runs: the os.path.exists branch
LoadModelExists ==
    /\ pc = "load_model"
    /\ ~CacheHit(cache)
    /\ IF ~PathExists(file)
       THEN /\ cache' = Entry(None, "ModelNotFound", "none")
            /\ model' = None
            /\ emitted' = WithLoadMessages(emitted, "ModelNotFound", "none")
            /\ pc' = "check_model"
       ELSE /\ pc' = "joblib_load"
            /\ UNCHANGED <<cache, model, emitted>>
    /\ UNCHANGED <<file, loads, form, trigger, input_df, prediction,
                   probability, raised, calls, display>>

\* the try block of the body
LoadModelJoblib ==
    /\ pc = "joblib_load"
    /\ loads < MaxLoads
    /\ loads' = loads + 1
    /\ LET r == JoblibLoad(file, loads + 1) IN
       IF r.exc = "none"
       THEN /\ cache' = Entry(r.value, "none", "none")
            /\ model' = r.value
            /\ pc' = "check_model"
            /\ UNCHANGED <<emitted, display>>
       ELSE IF LoadCatches(r.exc)
       THEN /\ cache' = Entry(None, "ModelLoadError", r.exc)
            /\ model' = None
            /\ emitted' = WithLoadMessages(emitted, "ModelLoadError", r.exc)
            /\ pc' = "check_model"
            /\ UNCHANGED display
       ELSE /\ emitted' = WithUncaught(emitted, r.exc)
            /\ display' = ScreenAfterRun(display, emitted')
            /\ pc' = "idle"
            /\ UNCHANGED <<cache, model>>
    /\ UNCHANGED <<file, form, trigger, input_df, prediction, probability,
                   raised, calls>>

\* if model is None: st.stop()
CheckModel ==
    /\ pc = "check_model"
    /\ IF StopsRun(model)
       THEN /\ display' = ScreenAfterRun(display, emitted)
            /\ pc' = "idle"
       ELSE /\ pc' = "get_user_input"
            /\ UNCHANGED display
    /\ UNCHANGED <<file, cache, loads, form, trigger, model, input_df,
                   prediction, probability, raised, calls, emitted>>

----------------------------------------------------------------------------
(* the rest of main *)

\* input_df = get_user_input()
GetUserInput ==
    /\ pc = "get_user_input"
    /\ input_df' = get_user_input(form)
    /\ emitted' = WithSidebar(emitted)
    /\ pc' = "columns"
    /\ UNCHANGED <<file, cache, loads, form, trigger, model, prediction,
                   probability, raised, calls, display>>

\* col1 (profile summary), then col2 up to `if st.button(...)`
Columns ==
    /\ pc = "columns"
    /\ emitted' = WithButton(WithProfile(emitted, input_df))
    /\ pc' = IF ButtonValue(trigger) THEN "predict" ELSE "footer"
    /\ UNCHANGED <<file, cache, loads, form, trigger, model, input_df,
                   prediction, probability, raised, calls, display>>

\* prediction = model.predict(input_df)[0]
Predict ==
    /\ pc = "predict"
    /\ IF model = None
       THEN /\ raised' = "AttributeError"
            /\ pc' = "except"
            /\ UNCHANGED <<calls, prediction>>
       ELSE /\ calls' = Append(calls, [op |-> "predict", df |-> input_df])
            /\ \/ \E exc \in ModelRaises :
                     /\ raised' = exc
                     /\ pc' = "except"
                     /\ UNCHANGED prediction
               \/ \E y \in {0, 1} :
                     /\ prediction' = <<y>>
                     /\ pc' = "predict_proba"
                     /\ UNCHANGED raised
    /\ UNCHANGED <<file, cache, loads, form, trigger, model, input_df,
                   probability, emitted, display>>

\* probability = model.predict_proba(input_df)[0, 1]
PredictProba ==
    /\ pc = "predict_proba"
    /\ calls' = Append(calls, [op |-> "predict_proba", df |-> input_df])
    /\ \/ \E exc \in ModelRaises :
             /\ raised' = exc
             /\ pc' = "except"
             /\ UNCHANGED probability
       \/ \E p \in ProbSamples :
             /\ probability' = <<p>>
             /\ pc' = "render"
             /\ UNCHANGED raised
    /\ UNCHANGED <<file, cache, loads, form, trigger, model, input_df,
                   prediction, emitted, display>>

\* headline, metric, progress bar, recommendation
Render ==
    /\ pc = "render"
    /\ emitted' = WithResults(emitted, prediction[1], probability[1])
    /\ pc' = "footer"
    /\ UNCHANGED <<file, cache, loads, form, trigger, model, input_df,
                   prediction, probability, raised, calls, display>>

\* except Exception as e: ...
Except ==
    /\ pc = "except"
    /\ IF PredictCatches(raised)
       THEN /\ emitted' = WithPredictionError(emitted, raised)
            /\ raised' = "none"
            /\ pc' = "footer"
            /\ UNCHANGED display
       ELSE /\ emitted' = WithUncaught(emitted, raised)
            /\ raised' = "none"
            /\ display' = ScreenAfterRun(display, emitted')
            /\ pc' = "idle"
    /\ UNCHANGED <<file, cache, loads, form, trigger, model, input_df,
                   prediction, probability, calls>>

\* footer; the script ends and the screen is that of this run
Footer ==
    /\ pc = "footer"
    /\ emitted' = WithFooter(emitted)
    /\ display' = ScreenAfterRun(display, emitted')
    /\ pc' = "idle"
    /\ UNCHANGED <<file, cache, loads, form, trigger, model, input_df,
                   prediction, probability, raised, calls>>

Next ==
    \/ Connect \/ Rerun \/ Edit \/ Press \/ FileChange
    \/ LoadModelCached \/ LoadModelExists \/ LoadModelJoblib \/ CheckModel
    \/ GetUserInput \/ Columns \/ Predict \/ PredictProba \/ Render
    \/ Except \/ Footer

Spec == Init /\ [][Next]_vars

----------------------------------------------------------------------------
(* The feature builder over the whole range of the widgets: a pressed run   *)
(* that has just loaded the model, for every pdays, campaign and poutcome   *)
(* the form can hold.                                                       *)

InitBuild ==
    /\ file = "good"
    /\ cache = Entry(Model(1), "none", "none")
    /\ loads = 1
    /\ \E d \in PdaysMin..PdaysMax : \E c \in CampaignMin..CampaignMax :
         \E o \in PoutcomeOptions :
            form = [FormDefaults EXCEPT !.pdays = d, !.campaign = c,
                                        !.poutcome = o]
    /\ trigger = "press"
    /\ pc = "get_user_input"
    /\ model = Model(1)
    /\ input_df = NoFrame
    /\ prediction = Unassigned
    /\ probability = Unassigned
    /\ raised = "none"
    /\ calls = <<>>
    /\ emitted = StartScreen
    /\ display = IdleScreen(form)

NextBuild == GetUserInput \/ Columns \/ Predict

SpecBuild == InitBuild /\ [][NextBuild]_vars

(* The presenter over every probability of the scale: a pressed run in      *)
(* which both model calls have returned.                                    *)

InitTier ==
    /\ file = "good"
    /\ cache = Entry(Model(1), "none", "none")
    /\ loads = 1
    /\ form = FormDefaults
    /\ trigger = "press"
    /\ pc = "render"
    /\ model = Model(1)
    /\ input_df = get_user_input(form)
    /\ prediction \in {<<0>>, <<1>>}
    /\ \E p \in 0..Scale : probability = <<p>>
    /\ raised = "none"
    /\ calls = <<[op |-> "predict", df |-> input_df],
                 [op |-> "predict_proba", df |-> input_df]>>
    /\ emitted = WithButton(WithProfile(WithSidebar(StartScreen), input_df))
    /\ display = IdleScreen(form)

NextTier == Render \/ Footer

SpecTier == InitTier /\ [][NextTier]_vars

----------------------------------------------------------------------------
(* Properties *)

\* the records handed to the model by the current run
Scored == {calls[i].df : i \in 1..Len(calls)}

\* the three engineered columns of a frame
Derived(df) ==
    <<df["was_previously_contacted"], df["campaign_successful"],
      df["poutcome_success"]>>

\* result elements (headline, metric, progress bar, recommendation) of a screen
HasResults(e) ==
    e.label # "none" \/ e.metric # <<>> \/ e.progress # <<>> \/ e.tiers # {}

FullResults(e) ==
    e.label # "none" /\ e.metric # <<>> /\ e.progress # <<>> /\ e.tiers # {}

\* C1: for every pdays in 0..999, campaign in 1..50 and poutcome of the form,
\* the frame built by get_user_input, and the frame passed to the model,
\* carry was_previously_contacted = 1 iff pdays is not 999,
\* campaign_successful = 1 iff campaign < 5 and poutcome_success = 1 iff
\* poutcome is "success"; (999, 2, nonexistent) gives (0, 1, 0) and
\* (5, 7, success) gives (1, 0, 1).
C1_DerivedFeatures ==
    \A df \in (IF input_df = NoFrame THEN {} ELSE {input_df}) \cup Scored :
        /\ DOMAIN df = DOMAIN RawData(form) \cup
              {"was_previously_contacted", "campaign_successful",
               "poutcome_success"}
        /\ df["was_previously_contacted"] = 1 <=> form.pdays # 999
        /\ df["was_previously_contacted"] = 0 <=> form.pdays = 999
        /\ df["campaign_successful"] = 1 <=> form.campaign < 5
        /\ df["campaign_successful"] = 0 <=> form.campaign >= 5
        /\ df["poutcome_success"] = 1 <=> form.poutcome = "success"
        /\ df["poutcome_success"] = 0 <=> form.poutcome # "success"
        /\ (form.pdays = 999 /\ form.campaign = 2
               /\ form.poutcome = "nonexistent") => Derived(df) = <<0, 1, 0>>
        /\ (form.pdays = 5 /\ form.campaign = 7
               /\ form.poutcome = "success") => Derived(df) = <<1, 0, 1>>

\* a frame with pdays = 5, campaign = 7, poutcome = success was passed to
\* the model with derived features (1, 0, 1)
C1_Witness ==
    /\ form.pdays = 5 /\ form.campaign = 7 /\ form.poutcome = "success"
    /\ calls # <<>>
    /\ Derived(calls[1].df) = <<1, 0, 1>>

\* C2: for every probability p/Scale returned by a successful prediction,
\* once the results are rendered exactly one recommendation tier is shown:
\* HIGH when p/Scale > 0.7, MEDIUM when 0.4 < p/Scale <= 0.7, LOW when
\* p/Scale <= 0.4; exactly 0.7 gives MEDIUM and exactly 0.4 gives LOW.
C2_Tiering ==
    (pc \in {"footer", "idle"} /\ probability # Unassigned) =>
        LET p == probability[1] IN
        \A e \in {emitted} \cup (IF pc = "idle" THEN {display} ELSE {}) :
            /\ Cardinality(e.tiers) = 1
            /\ e.tiers \subseteq {"HIGH", "MEDIUM", "LOW"}
            /\ "HIGH" \in e.tiers <=> 10 * p > 7 * Scale
            /\ "MEDIUM" \in e.tiers <=> (10 * p > 4 * Scale /\ 10 * p <= 7 * Scale)
            /\ "LOW" \in e.tiers <=> 10 * p <= 4 * Scale
            /\ 10 * p = 7 * Scale => e.tiers = {"MEDIUM"}
            /\ 10 * p = 4 * Scale => e.tiers = {"LOW"}

\* a run has ended whose probability was exactly 0.7 and MEDIUM is on screen
C2_Witness ==
    /\ pc = "idle"
    /\ probability # Unassigned
    /\ 10 * probability[1] = 7 * Scale
    /\ display.tiers = {"MEDIUM"}

\* C3: when load_model returns None (artifact missing or not deserializable)
\* the run stops before the form and the predict button are created; no
\* model operation is invoked and no prediction result is displayed.
C3_NoModelNoPrediction ==
    (model = None \/ (cache # Empty /\ cache.value = None)) =>
        /\ calls = <<>>
        /\ pc \in {"idle", "load_model", "check_model"}
        /\ ~emitted.formShown /\ ~emitted.buttonShown
        /\ ~display.formShown /\ ~display.buttonShown
        /\ ~HasResults(emitted) /\ ~HasResults(display)
        /\ input_df = NoFrame
        /\ prediction = Unassigned /\ probability = Unassigned

\* a run that got None from load_model has ended, its message is on screen
C3_Witness ==
    /\ pc = "idle"
    /\ model = None
    /\ display.loadSignal \in {"ModelNotFound", "ModelLoadError"}
    /\ file = "good"

\* C4: once load_model has loaded the model, every later call returns that
\* same instance without reading the artifact again: joblib.load runs at
\* most once per process and the cached model never changes.
C4_LoadedOnce ==
    [][/\ loads' <= 1
       /\ (cache # Empty /\ cache.value # None) =>
             /\ cache' = cache
             /\ loads' = loads
             /\ (pc = "load_model" /\ pc' # pc) => model' = cache.value
             /\ model' \in {Unbound, cache.value}]_vars

\* a later run was served the cached model although the artifact is gone
C4_Witness ==
    /\ pc = "check_model"
    /\ trigger \in {"rerun", "edit", "press"}
    /\ model = cache.value
    /\ model = Model(1)
    /\ file # "good"

\* C5: load_model returns a deserialized model or None: a missing file is
\* signalled as ModelNotFound with None returned, a file that exists but
\* fails to deserialize is signalled as ModelLoadError with its cause
\* and None returned, and no exception leaves load_model.
C5_LoadOutcome ==
    [][/\ (pc = "load_model" /\ pc' # pc /\ cache = Empty) =>
             IF file = "missing"
             THEN /\ pc' = "check_model"
                  /\ model' = None
                  /\ emitted'.loadSignal = "ModelNotFound"
             ELSE /\ pc' = "joblib_load"
                  /\ emitted' = emitted
       /\ (pc = "joblib_load" /\ pc' # pc) =>
             /\ pc' = "check_model"
             /\ emitted'.uncaught = "none"
             /\ IF file = "good"
                THEN /\ model'.kind = "Model"
                     /\ emitted'.loadSignal = "none"
                ELSE /\ model' = None
                     /\ emitted'.loadSignal = "ModelLoadError"
                     /\ emitted'.loadCause \in ExceptionClasses
       /\ (pc' = "check_model" /\ pc # pc') => model'.kind \in {"Model", "None"}]_vars

\* deserialization failed and load_model returned None with ModelLoadError
C5_Witness ==
    /\ pc = "check_model"
    /\ model = None
    /\ emitted.loadSignal = "ModelLoadError"
    /\ emitted.loadCause = "UnpicklingError"

\* C6 as stated: a failed prediction leaves the label, probability and tier
\* displayed by the previous successful prediction on screen, unchanged.
C6_PriorResultsKept ==
    [][(pc # "idle" /\ pc' = "idle" /\ emitted'.predError # "none") =>
          /\ display'.label = display.label
          /\ display'.metric = display.metric
          /\ display'.progress = display.progress
          /\ display'.tiers = display.tiers]_vars

\* C6 amended: a failed prediction is surfaced with its cause, and the screen
\* the failed run leaves shows the error and no label, probability or tier:
\* the results of the previous prediction are replaced, not kept.
C6_ErrorReplacesResults ==
    [][(pc # "idle" /\ pc' = "idle" /\ trigger = "press"
          /\ Len(calls) > 0 /\ probability = Unassigned) =>
          /\ display'.predError \in ModelRaises
          /\ display'.label = "none"
          /\ display'.metric = <<>>
          /\ display'.progress = <<>>
          /\ display'.tiers = {}
          /\ display'.uncaught = "none"]_vars

\* the handler has shown the error of a failed prediction while the results
\* of the previous prediction are still on screen
C6_Witness ==
    /\ pc = "footer"
    /\ emitted.predError # "none"
    /\ FullResults(display)

\* C7: a prediction error is caught at the call site and leaves the form
\* intact: no run changes a raw form field, the failed run ends with the
\* error shown and nothing uncaught, the model still cached, and the form
\* and the predict button on screen for another attempt.
C7_FormIntactAfterError ==
    [][/\ (pc # "idle" => form' = form)
       /\ (raised # "none" \/ raised' # "none") =>
             /\ form' = form
             /\ cache' = cache
             /\ emitted'.uncaught = "none"
             /\ emitted'.buttonShown /\ emitted'.formShown
             /\ pc' \in {"except", "footer"}
       /\ (pc # "idle" /\ pc' = "idle" /\ Len(calls) > 0
             /\ probability = Unassigned) =>
             /\ display'.predError # "none"
             /\ display'.buttonShown /\ display'.formShown
             /\ cache'.value = model /\ model.kind = "Model"
             /\ input_df = get_user_input(form')]_vars

\* a failed prediction over an edited form has ended; the button is there
C7_Witness ==
    /\ pc = "idle"
    /\ display.predError # "none"
    /\ display.buttonShown
    /\ form # FormDefaults
    /\ cache.value = Model(1)

\* C8: the model operations are invoked only in a run started by a press of
\* the predict button, each at most once per press (predict, then
\* predict_proba); a run that failed invokes nothing further, and runs
\* started by form edits, reruns or a new session invoke nothing.
C8_OnlyOnPress ==
    /\ calls # <<>> => trigger = "press"
    /\ Len(calls) <= 2
    /\ Len(calls) >= 1 => calls[1].op = "predict"
    /\ Len(calls) = 2 => calls[2].op = "predict_proba"
    /\ (raised # "none" \/ emitted.predError # "none") =>
          /\ pc \in {"except", "footer", "idle"}
          /\ trigger = "press"
    /\ pc \in {"predict", "predict_proba"} => trigger = "press"

\* the error of a failed prediction is on screen and the run started by a
\* form edit has passed the button without invoking the model
C8_Witness ==
    /\ pc = "footer"
    /\ trigger = "edit"
    /\ calls = <<>>
    /\ display.predError # "none"
    /\ emitted.buttonShown

\* C9: the record passed to the model is built from the form as it is at
\* that trigger: every raw column equals the current widget value and every
\* derived column is computed from the current widget values.
C9_RecordFromCurrentForm ==
    \A df \in Scored :
        /\ df["age"] = form.age /\ df["job"] = form.job
        /\ df["marital"] = form.marital /\ df["education"] = form.education
        /\ df["default"] = form.default /\ df["housing"] = form.housing
        /\ df["loan"] = form.loan /\ df["contact"] = form.contact
        /\ df["month"] = form.month /\ df["day_of_week"] = form.day_of_week
        /\ df["campaign"] = form.campaign /\ df["pdays"] = form.pdays
        /\ df["previous"] = form.previous /\ df["poutcome"] = form.poutcome
        /\ df["emp.var.rate"] = form.emp_var_rate
        /\ df["cons.price.idx"] = form.cons_price_idx
        /\ df["cons.conf.idx"] = form.cons_conf_idx
        /\ df["euribor3m"] = form.euribor3m
        /\ df["nr.employed"] = form.nr_employed
        /\ Derived(df) =
              <<IF form.pdays = 999 THEN 0 ELSE 1,
                IF form.campaign < 5 THEN 1 ELSE 0,
                IF form.poutcome = "success" THEN 1 ELSE 0>>

\* a prediction on a form edited away from its defaults in three fields: both
\* model calls got the edited values
C9_Witness ==
    /\ pc = "render"
    /\ Len(calls) = 2
    /\ form.pdays = 5 /\ form.campaign = 7 /\ form.job = "student"
    /\ calls[1].df["pdays"] = 5 /\ calls[2].df["job"] = "student"
    /\ Derived(calls[2].df) = <<1, 0, 0>>

\* C10: both model calls return before anything is rendered: result elements
\* are emitted only with both values assigned and then all together; when a
\* model call raised, the run shows the prediction error and no label,
\* probability or tier.
C10_AllOrNothing ==
    \A e \in {emitted} \cup (IF pc = "idle" THEN {display} ELSE {}) :
        /\ HasResults(e) =>
              /\ FullResults(e)
              /\ Len(calls) = 2
              /\ prediction # Unassigned /\ probability # Unassigned
              /\ e.predError = "none"
        /\ (raised # "none" \/ e.predError # "none") => ~HasResults(e)
        /\ (pc \in {"footer", "idle"} /\ Len(calls) > 0
               /\ probability = Unassigned) =>
              e.predError # "none"

\* predict returned, predict_proba raised: only the error is on screen
C10_Witness ==
    /\ pc = "idle"
    /\ Len(calls) = 2
    /\ prediction # Unassigned
    /\ probability = Unassigned
    /\ display.predError = "ValueError"
    /\ ~HasResults(display)

====
